---------------------------- MODULE Spec2Model ----------------------------
(***************************************************************************)
(* Model of src/app.py: a Flask webhook handler that relays the latest     *)
(* Shopify timeline comment of an order into the Slack thread of that      *)
(* order.                                                                  *)
(*                                                                         *)
(* Strings are sequences of one-character strings, so that the regular     *)
(* expression ORDER_REGEX, the f-string concatenations and the dedup key   *)
(* are computed the way the code computes them.  The leading emoji of the  *)
(* Slack reply text is written as the single element "(speech)".           *)
(*                                                                         *)
(* Flask serves requests on several threads; a request thread can be       *)
(* pre-empted between any two statements, so order_updated is cut at its   *)
(* blocking HTTP calls and at its reads and writes of the two module-level *)
(* stores.                                                                 *)
(***************************************************************************)
EXTENDS Integers, Sequences, FiniteSets, TLC

\* ------------------------------------------------------------------------
\* Bounds of the model
\* ------------------------------------------------------------------------

\* number of request threads that serve webhooks concurrently
MaxThreads == 2

\* number of webhook deliveries accepted in one behaviour
MaxWebhooks == 2

Threads == 1..MaxThreads

\* Python's None (also what dict.get returns for an absent key): a sequence
\* that is no string, since its one element is not a character
None == <<"None">>

\* ------------------------------------------------------------------------
\* Characters
\* ------------------------------------------------------------------------

DigitChars == {"0", "1", "2", "3", "4", "5", "6", "7", "8", "9"}

UpperChars == {"S", "T", "N", "X"}

LowerChars == {"s", "t", "o", "r", "d", "e", "n", "g", "a", "h", "i", "x"}

SpaceChars == {" ", "\t", "\n"}

\* \w of the re module: letters, digits and the underscore
IsWordChar(c) == c \in DigitChars \cup UpperChars \cup LowerChars \cup {"_"}

\* str.lower() on one character of the alphabet
Lower(c) ==
    CASE c = "S" -> "s"
      [] c = "T" -> "t"
      [] c = "N" -> "n"
      [] c = "X" -> "x"
      [] OTHER -> c

\* ------------------------------------------------------------------------
\* ORDER_REGEX = re.compile(r"\bST\.order\s+#(\d+)\b")
\* ------------------------------------------------------------------------

\* the literal part ST\.order of the pattern
MarkerPrefix == <<"S", "T", ".", "o", "r", "d", "e", "r">>

\* re.compile with flags=re.IGNORECASE
IgnoreCaseSet == TRUE

\* the flags of re.compile (line 15): none, so letter case matters
IgnoreCase == FALSE

\* a pattern character against a text character
CharMatches(ignorecase, p, c) == IF ignorecase THEN Lower(p) = Lower(c) ELSE p = c

\* \b at the gap before position i (1-based) of text
WordBoundary(text, i) ==
    LET before == i > 1 /\ i - 1 <= Len(text) /\ IsWordChar(text[i - 1])
        after == i >= 1 /\ i <= Len(text) /\ IsWordChar(text[i])
    IN  before # after

\* the literal ST\.order at position i
PrefixAt(ignorecase, text, i) ==
    /\ i + Len(MarkerPrefix) - 1 <= Len(text)
    /\ \A j \in 1..Len(MarkerPrefix) :
          CharMatches(ignorecase, MarkerPrefix[j], text[i + j - 1])

\* first position >= i whose character is not in class (Len(text)+1 if none):
\* the end of a greedy run
RECURSIVE RunEnd(_, _, _)
RunEnd(text, i, class) ==
    IF i > Len(text) \/ text[i] \notin class THEN i
    ELSE RunEnd(text, i + 1, class)

\* the digit run captured by group(1) when the pattern matches at position i,
\* None when it does not match there.  \s+ and \d+ are greedy; giving back
\* part of a run never helps, since the character after a shorter run is
\* again a space (not '#') or a digit (no \b after it).
MatchAt(ignorecase, text, i) ==
    IF ~(WordBoundary(text, i) /\ PrefixAt(ignorecase, text, i)) THEN None
    ELSE LET s == i + Len(MarkerPrefix)
             h == RunEnd(text, s, SpaceChars)
         IN  IF h = s \/ h > Len(text) \/ text[h] # "#" THEN None
             ELSE LET d == h + 1
                      e == RunEnd(text, d, DigitChars)
                  IN  IF e = d \/ ~WordBoundary(text, e) THEN None
                      ELSE SubSeq(text, d, e - 1)

\* pattern.search(text) from position i on: the leftmost match; its group(1),
\* or None
RECURSIVE SearchFrom(_, _, _)
SearchFrom(ignorecase, text, i) ==
    IF i > Len(text) THEN None
    ELSE IF MatchAt(ignorecase, text, i) # None THEN MatchAt(ignorecase, text, i)
    ELSE SearchFrom(ignorecase, text, i + 1)

\* ORDER_REGEX.search(text)
ORDER_REGEX_search(text) == SearchFrom(IgnoreCase, text, 1)

\* ------------------------------------------------------------------------
\* Values exchanged with the webhook caller, Slack and Shopify
\* ------------------------------------------------------------------------

\* order numbers carried by webhooks; the second has the first as a prefix
OrderNumbers == {<<"1", "2">>, <<"1", "2", "3">>}

\* the "id" field of a webhook payload
OrderIds == {<<"7">>}

\* request.json when the body is the JSON value null
JsonNull == [json |-> "null", order_number |-> None, id |-> None]

\* a JSON object with the two fields the handler reads; None for an absent one
Payload(n, i) == [json |-> "object", order_number |-> n, id |-> i]

\* request.json of the webhooks: complete objects, an object without
\* order_number, an object without id, and null
Payloads ==
    {Payload(n, i) : n \in OrderNumbers, i \in OrderIds}
    \cup {Payload(None, <<"7">>), Payload(<<"1", "2">>, None), JsonNull}

\* str(x) for x a string or None
Str(x) == IF x = None THEN <<"N", "o", "n", "e">> ELSE x

\* truthiness of a string or None
Truthy(x) == x # None /\ x # <<>>

\* message values of timeline comments; one is a prefix of the other
Messages == {<<"h", "i">>, <<"h", "i", "1">>}

\* createdAt values: Shopify DateTime strings, all of one length
CreatedAts == {<<"1">>, <<"2">>}

AuthorName == <<"a", "n", "n">>

\* an OrderCommentEvent node of the GraphQL response
CommentNode(m, t) ==
    [typename |-> "OrderCommentEvent", message |-> m, createdAt |-> t,
     author |-> AuthorName]

\* a node of another event type: the fragment fields are absent
OtherNode ==
    [typename |-> "BasicEvent", message |-> None, createdAt |-> None,
     author |-> None]

\* the value None where a node is expected
NoneNode ==
    [typename |-> "None", message |-> None, createdAt |-> None, author |-> None]

\* the comments of the feed: two that differ in createdAt only and two that
\* differ in message only
CommentNodes ==
    {CommentNode(m, t) : m \in Messages, t \in CreatedAts}
    \ {CommentNode(<<"h", "i", "1">>, <<"2">>)}

\* ------------------------------------------------------------------------
\* find_thread_ts
\* ------------------------------------------------------------------------

\* a message of conversations.history
Msg(text, ts) == [text |-> text, ts |-> ts]

\* how the history request ends: requests.get raises, the status is an error
\* status, the body of a 2xx answer is no JSON, the body is a Slack error
\* object (no "messages" key), or the body lists the channel's messages
HistoryOutcomes == {"transport_error", "http_error", "bad_json", "api_error", "ok"}

\* the outcomes in which requests.get or r.json() raises
HistoryRaises(outcome) == outcome \in {"transport_error", "bad_json"}

\* r.json().get("messages", [])
HistoryMessages(outcome, channel) == IF outcome = "ok" THEN channel ELSE <<>>

\* str.startswith
StartsWith(str, prefix) ==
    Len(prefix) <= Len(str) /\ SubSeq(str, 1, Len(prefix)) = prefix

\* the test of line 44 with startswith in place of ==
MessageMatchesPrefix(msg, order_number) ==
    LET match == ORDER_REGEX_search(msg.text)
    IN  match # None /\ StartsWith(match, order_number)

\* lines 44-45 without the comparison of the digits with the order number
MessageMatchesAnyOrder(msg, order_number) ==
    ORDER_REGEX_search(msg.text) # None

\* lines 42-44: match and match.group(1) == order_number
MessageMatches(msg, order_number) ==
    LET match == ORDER_REGEX_search(msg.text)
    IN  match # None /\ match = order_number

\* the loop of lines 41-46 from message i on, and line 49
RECURSIVE ScanMessages(_, _, _)
ScanMessages(messages, i, order_number) ==
    IF i > Len(messages) THEN None
    ELSE IF MessageMatches(messages[i], order_number) THEN messages[i].ts
    ELSE ScanMessages(messages, i + 1, order_number)

\* find_thread_ts(order_number) when nothing raises
find_thread_ts(order_number, outcome, channel) ==
    IF outcome = "http_error" THEN None
    ELSE ScanMessages(HistoryMessages(outcome, channel), 1, order_number)

\* ------------------------------------------------------------------------
\* fetch_latest_comment
\* ------------------------------------------------------------------------

\* the answer of the GraphQL request: requests.post raises, or a body that is
\* no JSON, has "errors", has no "data", has no "order", or has the events
FeedKinds == {"transport_error", "bad_json", "errors", "no_data", "no_order", "events"}

FeedResponse(kind, events) == [kind |-> kind, events |-> events]

\* the loop of lines 140-144 looking at edge i only: no later edge is tried
FirstCommentNoSkip(events, i) ==
    IF events[i].typename = "OrderCommentEvent" THEN events[i] ELSE NoneNode

\* the loop of lines 140-144 from edge i on, and line 147
RECURSIVE FirstComment(_, _)
FirstComment(events, i) ==
    IF i > Len(events) THEN NoneNode
    ELSE IF events[i].typename = "OrderCommentEvent" THEN events[i]
    ELSE FirstComment(events, i + 1)

\* fetch_latest_comment(order_id) when requests.post does not raise
fetch_latest_comment(r) ==
    IF r.kind \in {"bad_json", "errors", "no_data", "no_order"} THEN NoneNode
    ELSE IF r.events = <<>> THEN NoneNode
    ELSE FirstComment(r.events, 1)

\* ------------------------------------------------------------------------
\* dedup key and reply text
\* ------------------------------------------------------------------------

\* a dedup key made of createdAt alone
DedupKeyCreatedAtOnly(comment) == <<"md5", comment.createdAt>>

\* a dedup key made of the message alone
DedupKeyMessageOnly(comment) == <<"md5", comment.message>>

\* lines 178-180: the MD5 hex digest of message followed by createdAt; the
\* digest is the tagged input (MD5 has no collision among the model's strings)
DedupKey(comment) == <<"md5", comment.message \o comment.createdAt>>

\* line 191: f"(speech) *{author name}*\n>{message}"
ReplyText(comment) ==
    <<"(speech)", " ", "*">> \o comment.author \o <<"*", "\n", ">">> \o comment.message

\* the chat.postMessage request of lines 57-68
PostRequest(thread, text) == [thread_ts |-> thread, text |-> text]

\* how the chat.postMessage request ends
ReplyOutcomes == {"transport_error", "http_error", "bad_json", "api_error", "ok"}

\* requests.post raises, or r.ok holds and r.json() raises (line 70)
ReplyRaises(outcome) == outcome \in {"transport_error", "bad_json"}

\* ------------------------------------------------------------------------
\* The Slack channel and the Shopify feed seen by the handler
\* ------------------------------------------------------------------------

MarkerText(digits) == MarkerPrefix \o <<" ", "#">> \o digits

\* the order messages of the channel, most recent first: one for order 123,
\* one for order 12
ChannelBoth ==
    <<Msg(MarkerText(<<"1", "2", "3">>), <<"T", "2">>),
      Msg(MarkerText(<<"1", "2">>), <<"T", "1">>)>>

\* the same channel after a second message naming order 12 was posted
ChannelReposted == <<Msg(MarkerText(<<"1", "2">>), <<"T", "3">>)>> \o ChannelBoth

\* the channel before the message of order 12 was posted
ChannelOther == <<Msg(MarkerText(<<"1", "2", "3">>), <<"T", "2">>)>>

\* the contents the channel has in the course of a behaviour
Channels == {ChannelOther, ChannelBoth, ChannelReposted}

\* the event lists the feed answers with
EventLists ==
    {<<c>> : c \in CommentNodes}
    \cup {<<>>, <<OtherNode>>, <<OtherNode, CommentNode(<<"h", "i">>, <<"1">>)>>}

\* the answers of the GraphQL request
FeedResponses ==
    {FeedResponse(k, <<>>) : k \in FeedKinds \ {"events"}}
    \cup {FeedResponse("events", e) : e \in EventLists}

\* ------------------------------------------------------------------------
\* State
\* ------------------------------------------------------------------------

VARIABLES
    order_threads,       \* the dict order_threads: order number -> thread ts
    processed_comments,  \* the set processed_comments of dedup keys
    channel,             \* the messages of the Slack channel, most recent first
    posts,               \* the chat.postMessage requests sent so far
    last_delivered,      \* per order, createdAt of the comment recorded and sent last
    webhooks,            \* number of webhook deliveries received since Init
    pc,                  \* where each request thread is in order_updated
    order_number,        \* local order_number
    order_id,            \* local order_id
    thread_ts,           \* local thread_ts
    comment,             \* local comment
    effects,             \* how often the thread's delivery did each thing so far
    answered             \* the HTTP response sent last, and what its delivery did

vars ==
    <<order_threads, processed_comments, channel, posts, last_delivered,
      webhooks, pc, order_number, order_id, thread_ts, comment, effects,
      answered>>

stores == <<order_threads, processed_comments>>

logs == <<posts, last_delivered>>

locals == <<order_number, order_id, thread_ts, comment>>

\* what a delivery can do to the stores and, after thread resolution, to the
\* outside (its history request is the stay at "history")
EffectKinds == {"cache_write", "feed_query", "store_write", "chat_post"}

NoEffects == [e \in EffectKinds |-> 0]

Did(eff, kinds) == [e \in EffectKinds |-> IF e \in kinds THEN eff[e] + 1 ELSE eff[e]]

\* a view result (body, status) and what the delivery did before it
Answer(body, status, eff) == [body |-> body, status |-> status, did |-> eff]

\* before any delivery is answered
NoAnswer == Answer("", 0, NoEffects)

\* Flask's answer when the view raises
InternalServerError == [body |-> "Internal Server Error", status |-> 500]

Response(body) == [body |-> body, status |-> 200]

\* a lookup that never finds an entry
CachedThreadMiss(k) == None

\* order_threads.get(k)
CachedThread(k) == IF k \in DOMAIN order_threads THEN order_threads[k] ELSE None

\* an assignment d[k] = v that is not made
DictSetLost(d, k, v) == d

\* d[k] = v on a dict
DictSet(d, k, v) == [x \in DOMAIN d \cup {k} |-> IF x = k THEN v ELSE d[x]]

\* the state of a freshly started process, whatever the channel holds
Started ==
    /\ order_threads = <<>>
    /\ processed_comments = {}
    /\ posts = {}
    /\ last_delivered = <<>>
    /\ webhooks = 0
    /\ pc = [h \in Threads |-> "idle"]
    /\ order_number = [h \in Threads |-> None]
    /\ order_id = [h \in Threads |-> None]
    /\ thread_ts = [h \in Threads |-> None]
    /\ comment = [h \in Threads |-> NoneNode]
    /\ effects = [h \in Threads |-> NoEffects]
    /\ answered = NoAnswer

Init == Started /\ channel \in Channels

\* the view returns r (or raises) after the delivery did eff: the response is
\* sent, the locals are gone and the thread is free again
Return(h, r, eff) ==
    /\ answered' = Answer(r.body, r.status, eff)
    /\ pc' = [pc EXCEPT ![h] = "idle"]
    /\ order_number' = [order_number EXCEPT ![h] = None]
    /\ order_id' = [order_id EXCEPT ![h] = None]
    /\ thread_ts' = [thread_ts EXCEPT ![h] = None]
    /\ comment' = [comment EXCEPT ![h] = NoneNode]
    /\ effects' = [effects EXCEPT ![h] = NoEffects]

\* ------------------------------------------------------------------------
\* order_updated, one action per stretch between two points where another
\* request thread can run
\* ------------------------------------------------------------------------

\* lines 157-165: read the payload, look the order up in order_threads and, on a
\* miss, send the conversations.history request.  The request threads are
\* interchangeable: a delivery is served by the first free one.
Receive(h, p) ==
    /\ pc[h] = "idle"
    /\ \A g \in Threads : g < h => pc[g] # "idle"
    /\ webhooks < MaxWebhooks
    /\ webhooks' = webhooks + 1
    /\ IF p.json = "null"
       THEN \* data.get raises AttributeError
            Return(h, InternalServerError, NoEffects)
       ELSE LET number == Str(p.order_number)
                cached == CachedThread(number)
            IN  /\ order_number' = [order_number EXCEPT ![h] = number]
                /\ order_id' = [order_id EXCEPT ![h] = p.id]
                /\ IF Truthy(cached)
                   THEN /\ thread_ts' = [thread_ts EXCEPT ![h] = cached]
                        /\ pc' = [pc EXCEPT ![h] = "cache"]
                   ELSE /\ pc' = [pc EXCEPT ![h] = "history"]
                        /\ UNCHANGED thread_ts
                /\ UNCHANGED <<comment, effects, answered>>
    /\ UNCHANGED <<stores, channel, logs>>

\* lines 31-49 and 166-168: the history request ends; scan the messages
HistoryAnswer(h, outcome) ==
    /\ pc[h] = "history"
    /\ IF HistoryRaises(outcome)
       THEN Return(h, InternalServerError, effects[h])
       ELSE LET ts == find_thread_ts(order_number[h], outcome, channel)
            IN  IF ~Truthy(ts)
                THEN Return(h, Response("No Slack thread"), effects[h])
                ELSE /\ thread_ts' = [thread_ts EXCEPT ![h] = ts]
                     /\ pc' = [pc EXCEPT ![h] = "cache"]
                     /\ UNCHANGED <<order_number, order_id, comment, effects,
                                    answered>>
    /\ UNCHANGED <<stores, channel, logs, webhooks>>

\* lines 170-175: store the thread in order_threads, then fetch the comment.
\* The GraphQL request and its answer r touch neither store, so the answer is
\* taken in the step that sends the request.
CacheAndFetch(h, r) ==
    /\ pc[h] = "cache"
    /\ order_threads' = DictSet(order_threads, order_number[h], thread_ts[h])
    /\ LET eff == Did(effects[h], {"cache_write", "feed_query"})
       IN  IF r.kind = "transport_error"
           THEN Return(h, InternalServerError, eff)
           ELSE LET c == fetch_latest_comment(r)
                IN  IF c = NoneNode
                    THEN Return(h, Response("No comment"), eff)
                    ELSE /\ comment' = [comment EXCEPT ![h] = c]
                         /\ effects' = [effects EXCEPT ![h] = eff]
                         /\ pc' = [pc EXCEPT ![h] = "dedup"]
                         /\ UNCHANGED <<order_number, order_id, thread_ts,
                                        answered>>
    /\ UNCHANGED <<processed_comments, channel, logs, webhooks>>

\* lines 178-184: the membership test on processed_comments
DedupCheck(h) ==
    /\ pc[h] = "dedup"
    /\ IF DedupKey(comment[h]) \in processed_comments
       THEN Return(h, Response("Duplicate"), effects[h])
       ELSE /\ pc' = [pc EXCEPT ![h] = "add"]
            /\ UNCHANGED <<locals, effects, answered>>
    /\ UNCHANGED <<stores, channel, logs, webhooks>>

\* what is known of a chat.postMessage request that was sent: the order and
\* the comment it is for, and whether Slack confirmed it
Post(order, c, thread, outcome) ==
    [order |-> order, message |-> c.message, createdAt |-> c.createdAt,
     request |-> PostRequest(thread, ReplyText(c)), confirmed |-> outcome = "ok"]

\* lines 186-194: record the key, send the chat.postMessage request and
\* return; the answer of the request touches neither store
AddAndReply(h, outcome) ==
    /\ pc[h] = "add"
    /\ processed_comments' = processed_comments \cup {DedupKey(comment[h])}
    /\ posts' = posts \cup
          {Post(order_number[h], comment[h], thread_ts[h], outcome)}
    /\ last_delivered' =
          DictSet(last_delivered, order_number[h], comment[h].createdAt)
    /\ LET eff == Did(effects[h], {"store_write", "chat_post"})
       IN  IF ReplyRaises(outcome)
           THEN Return(h, InternalServerError, eff)
           ELSE Return(h, Response("OK"), eff)
    /\ UNCHANGED <<order_threads, channel, webhooks>>

\* another process posts to, or deletes from, the Slack channel
ChannelChanges ==
    /\ channel' \in Channels \ {channel}
    /\ UNCHANGED <<stores, logs, webhooks, pc, locals, effects, answered>>

Next ==
    \/ \E h \in Threads, p \in Payloads : Receive(h, p)
    \/ \E h \in Threads, o \in HistoryOutcomes : HistoryAnswer(h, o)
    \/ \E h \in Threads, r \in FeedResponses : CacheAndFetch(h, r)
    \/ \E h \in Threads : DedupCheck(h)
    \/ \E h \in Threads, o \in ReplyOutcomes : AddAndReply(h, o)
    \/ ChannelChanges

Spec == Init /\ [][Next]_vars

\* ------------------------------------------------------------------------
\* Thread resolution over channels of arbitrary messages
\* ------------------------------------------------------------------------

\* number of messages in a channel of ResolveChannels
MaxChannelLen == 2

\* message texts: the canonical marker for order 12 and for order 123, the
\* marker in lower case, with trailing text, glued to a preceding or a
\* following letter, without the space, a text with two markers, and a text
\* with no marker
ResolveTexts ==
    {MarkerText(<<"1", "2">>),
     MarkerText(<<"1", "2", "3">>),
     <<"s", "t", ".", "o", "r", "d", "e", "r", " ", "#", "1", "2">>,
     <<"h", "i", " ">> \o MarkerText(<<"1", "2">>) \o <<" ", "g", "o">>,
     <<"x">> \o MarkerText(<<"1", "2">>),
     MarkerText(<<"1", "2">>) \o <<"x">>,
     MarkerPrefix \o <<"#", "1", "2">>,
     MarkerText(<<"1", "2", "3">>) \o <<" ">> \o MarkerText(<<"1", "2">>),
     <<"#", "1", "2">>}

\* the ts of the i-th message
HandleAt(i) ==
    <<"T", CASE i = 1 -> "1" [] i = 2 -> "2" [] i = 3 -> "3" [] OTHER -> "4">>

\* the channels of at most MaxChannelLen messages with these texts
ResolveChannels ==
    UNION {{[i \in 1..n |-> Msg(f[i], HandleAt(i))] : f \in [1..n -> ResolveTexts]} :
             n \in 0..MaxChannelLen}

InitResolve == Started /\ channel \in ResolveChannels

\* deliveries up to the end of thread resolution, the history request answered
NextResolve ==
    \/ \E h \in Threads, p \in Payloads : Receive(h, p)
    \/ \E h \in Threads : HistoryAnswer(h, "ok")

SpecResolve == InitResolve /\ [][NextResolve]_vars

\* ------------------------------------------------------------------------
\* The handler after an earlier delivery
\* ------------------------------------------------------------------------

\* the comment relayed by the earlier delivery
EarlierComment == CommentNode(<<"h", "i">>, <<"1">>)

\* the state Spec reaches when one delivery for order 12 has found the thread
\* T1 in ChannelBoth, relayed EarlierComment and returned "OK"
InitLater ==
    /\ order_threads = DictSet(<<>>, <<"1", "2">>, <<"T", "1">>)
    /\ processed_comments = {DedupKey(EarlierComment)}
    /\ channel = ChannelBoth
    /\ posts = {Post(<<"1", "2">>, EarlierComment, <<"T", "1">>, "ok")}
    /\ last_delivered = DictSet(<<>>, <<"1", "2">>, EarlierComment.createdAt)
    /\ webhooks = 0
    /\ pc = [h \in Threads |-> "idle"]
    /\ order_number = [h \in Threads |-> None]
    /\ order_id = [h \in Threads |-> None]
    /\ thread_ts = [h \in Threads |-> None]
    /\ comment = [h \in Threads |-> NoneNode]
    /\ effects = [h \in Threads |-> NoEffects]
    /\ answered = Answer("OK", 200, [e \in EffectKinds |-> 1])

SpecLater == InitLater /\ [][Next]_vars

\* ------------------------------------------------------------------------
\* The comment fetch over feeds of arbitrary events
\* ------------------------------------------------------------------------

\* number of events in a feed of FetchEventLists
MaxEvents == 2

\* the events of these feeds: an event of another kind and two comments
FetchNodes ==
    {OtherNode, CommentNode(<<"h", "i">>, <<"1">>), CommentNode(<<"h", "i">>, <<"2">>)}

\* the feeds of at most MaxEvents events
FetchEventLists == UNION {[1..n -> FetchNodes] : n \in 0..MaxEvents}

\* the answers of the GraphQL request that make requests.post return: a body
\* that is no JSON, one without "data", one without "order", and bodies with
\* events, with and without an "errors" entry beside them
FetchResponses ==
    {FeedResponse(k, <<>>) : k \in {"bad_json", "no_data", "no_order"}}
    \cup {FeedResponse(k, e) : k \in {"errors", "events"}, e \in FetchEventLists}

\* every request thread has received a delivery for an order of the channel
\* and found its thread by a scan; none has written order_threads yet
InitFetch ==
    /\ order_threads = <<>>
    /\ processed_comments = {}
    /\ channel \in {ChannelBoth, ChannelReposted}
    /\ posts = {}
    /\ last_delivered = <<>>
    /\ webhooks = MaxThreads
    /\ pc = [h \in Threads |-> "cache"]
    /\ order_number \in [Threads -> OrderNumbers]
    /\ order_id = [h \in Threads |-> <<"7">>]
    /\ thread_ts = [h \in Threads |-> find_thread_ts(order_number[h], "ok", channel)]
    /\ comment = [h \in Threads |-> NoneNode]
    /\ effects = [h \in Threads |-> NoEffects]
    /\ answered = NoAnswer

\* the cache write and the comment fetch of these deliveries
NextFetch == \E h \in Threads, r \in FetchResponses : CacheAndFetch(h, r)

SpecFetch == InitFetch /\ [][NextFetch]_vars

\* ------------------------------------------------------------------------
\* Vocabulary of the properties
\* ------------------------------------------------------------------------

\* the thread is between the start of thread resolution and the return
InWork(h) == pc[h] \in {"history", "cache", "dedup", "add"}

\* thread h takes the step that ends its thread resolution by a channel scan
Resolves(h) == pc[h] = "history" /\ pc'[h] # "history"

\* thread h takes the step that decides whether its comment is new
Decides(h) == pc[h] = "dedup" /\ pc'[h] # "dedup"

\* thread h takes the step that sends its chat post
Delivers(h) == pc[h] = "add" /\ pc'[h] # "add"

\* post p is for a comment with the message and the createdAt of comment c
SameComment(p, c) == p.message = c.message /\ p.createdAt = c.createdAt

\* s occurs in text as a contiguous piece
ContainsSeq(text, s) ==
    \E p \in 1..Len(text) :
        p + Len(s) - 1 <= Len(text) /\ SubSeq(text, p, p + Len(s) - 1) = s

\* the marker prefix, in any letter case, stands at position p of text
PrefixStandsAt(text, p) ==
    /\ p + Len(MarkerPrefix) - 1 <= Len(text)
    /\ \A j \in 1..Len(MarkerPrefix) : Lower(text[p + j - 1]) = Lower(MarkerPrefix[j])

\* at position p of text stands, between word boundaries, the marker prefix
\* in any letter case, w >= 1 spaces, '#' and a run of exactly n >= 1 digits
MarkerShapeAt(text, p, w, n) ==
    LET hash == p + Len(MarkerPrefix) + w
    IN  /\ hash + n <= Len(text)
        /\ p = 1 \/ ~IsWordChar(text[p - 1])
        /\ PrefixStandsAt(text, p)
        /\ \A j \in 1..w : text[p + Len(MarkerPrefix) + j - 1] \in SpaceChars
        /\ text[hash] = "#"
        /\ \A j \in 1..n : text[hash + j] \in DigitChars
        /\ hash + n = Len(text) \/ ~IsWordChar(text[hash + n + 1])

\* a marker whose digit run is exactly k stands at position p of text
MarkerForAt(text, p, k) ==
    /\ PrefixStandsAt(text, p)
    /\ \E w \in 1..Len(text) :
          /\ MarkerShapeAt(text, p, w, Len(k))
          /\ SubSeq(text, p + Len(MarkerPrefix) + w + 1,
                    p + Len(MarkerPrefix) + w + Len(k)) = k

\* text contains a marker whose digit run is exactly k
HasMarkerFor(text, k) == \E p \in 1..Len(text) : MarkerForAt(text, p, k)

\* a marker whose prefix is spelled as MarkerPrefix stands at position p
ExactMarkerAt(text, p) ==
    /\ PrefixStandsAt(text, p)
    /\ SubSeq(text, p, p + Len(MarkerPrefix) - 1) = MarkerPrefix
    /\ \E w, n \in 1..Len(text) : MarkerShapeAt(text, p, w, n)

\* the marker of text, the leftmost one spelled as MarkerPrefix, has the
\* digit run k
MarkerIsFor(text, k) ==
    \E p \in 1..Len(text) :
        /\ ExactMarkerAt(text, p)
        /\ MarkerForAt(text, p, k)
        /\ \A q \in 1..(p - 1) : ~ExactMarkerAt(text, q)

\* ------------------------------------------------------------------------
\* C1
\* ------------------------------------------------------------------------

\* C1: for every order and every createdAt value, at most one chat post is
\* ever made for a comment carrying that createdAt: no delivery sends a chat
\* post that Slack confirms for an order and a createdAt for which a confirmed
\* post was sent before.
C1_DedupInvariant ==
    [][\A h \in Threads :
          (Delivers(h) /\ answered'.body = "OK")
          => ~\E p \in posts :
                 /\ p.confirmed
                 /\ p.order = order_number[h]
                 /\ p.createdAt = comment[h].createdAt]_vars

\* ------------------------------------------------------------------------
\* C2
\* ------------------------------------------------------------------------

\* C2: at any instant at most one unit of relay work is active for a given
\* order: no two request threads are in work on the same order number.
C2_AdmissionMutualExclusion ==
    \A g, h \in Threads :
        (g # h /\ InWork(g) /\ InWork(h)) => order_number[g] # order_number[h]

\* ------------------------------------------------------------------------
\* C3
\* ------------------------------------------------------------------------

C4_AlwaysOk == answered = NoAnswer \/ answered.status = 200

\* ------------------------------------------------------------------------
\* C5
\* ------------------------------------------------------------------------

\* the payload of thread h's delivery lacked order_number or id
Malformed(h) ==
    pc[h] # "idle" /\ (order_number[h] = Str(None) \/ order_id[h] = None)

\* C5: a delivery whose payload lacks the order number or the order id makes
\* no chat history query, no comment feed query and no chat post and writes
\* neither store.
C5_MalformedRejected ==
    \A h \in Threads : Malformed(h) => (pc[h] # "history" /\ effects[h] = NoEffects)

\* ------------------------------------------------------------------------
\* C6
\* ------------------------------------------------------------------------

\* C6: when the order has no cached thread and the scan of the channel finds
\* no message whose marker equals the order number, the delivery ends in that
\* step, having fetched no comment and sent no chat post, and leaves
\* order_threads and processed_comments as they were.
C6_ThreadNotFound ==
    [][\A h \in Threads :
          (/\ Resolves(h)
           /\ \A i \in 1..Len(channel) : ~HasMarkerFor(channel[i].text, order_number[h]))
          => /\ pc'[h] = "idle"
             /\ answered'.did = NoEffects
             /\ UNCHANGED <<order_threads, processed_comments, posts>>]_vars

\* a delivery was answered "No Slack thread", and nothing is cached or recorded
C6_Witness ==
    /\ answered = Answer("No Slack thread", 200, NoEffects)
    /\ channel = ChannelOther
    /\ webhooks = 1
    /\ order_threads = <<>>
    /\ processed_comments = {}
    /\ posts = {}

\* ------------------------------------------------------------------------
\* C7
\* ------------------------------------------------------------------------

\* C7: when the thread T of the order is resolved and the feed returns a
\* comment for which no chat post was sent for that order yet, the delivery
\* sends exactly one chat post, to T and with the comment's message in its
\* text, after which the comment is recorded as delivered and order_threads
\* maps the order to T.
C7_SuccessfulRelay ==
    [][\A h \in Threads :
          /\ (/\ Decides(h)
              /\ ~\E p \in posts : p.order = order_number[h] /\ SameComment(p, comment[h]))
             => pc'[h] = "add"
          /\ Delivers(h)
             => /\ answered'.did["chat_post"] = 1
                /\ \E p \in posts' :
                      /\ p.order = order_number[h]
                      /\ SameComment(p, comment[h])
                      /\ p.request.thread_ts = thread_ts[h]
                      /\ ContainsSeq(p.request.text, comment[h].message)
                /\ DedupKey(comment[h]) \in processed_comments'
                /\ order_number[h] \in DOMAIN order_threads'
                /\ order_threads'[order_number[h]] = thread_ts[h]]_vars

\* ------------------------------------------------------------------------
\* C8
\* ------------------------------------------------------------------------

C9_CaseInsensitiveMatch ==
    [][\A h \in Threads :
          (/\ Resolves(h)
           /\ \E i \in 1..Len(channel) :
                 SearchFrom(TRUE, channel[i].text, 1) = order_number[h])
          => pc'[h] = "cache"]_vars

\* C9 as amended: the match is case-sensitive: the scan resolves an order only
\* to a message whose text contains the prefix spelled exactly "ST.order"; a
\* message whose prefix differs in letter case is passed over.
C9_CaseSensitiveMatch ==
    [][\A h \in Threads :
          (Resolves(h) /\ pc'[h] = "cache")
          => \E i \in 1..Len(channel) :
                /\ channel[i].ts = thread_ts'[h]
                /\ ContainsSeq(channel[i].text, MarkerPrefix)]_vars

\* order 12 is resolved to the second message, the first one carrying its
\* marker in lower case
C9_Witness ==
    \E h \in Threads :
        /\ pc[h] = "cache"
        /\ order_number[h] = <<"1", "2">>
        /\ Len(channel) = 2
        /\ SearchFrom(TRUE, channel[1].text, 1) = <<"1", "2">>
        /\ ~ContainsSeq(channel[1].text, MarkerPrefix)
        /\ thread_ts[h] = channel[2].ts

\* ------------------------------------------------------------------------
\* C10
\* ------------------------------------------------------------------------

C11_KeepsPollingAfterDelivery ==
    [][\A h \in Threads : Delivers(h) => InWork(h)']_vars

\* ------------------------------------------------------------------------
\* C12
\* ------------------------------------------------------------------------

\* C12: once an order has an entry in order_threads, the entry is never
\* removed and never changes to another handle.
C12_ThreadCacheStability ==
    [][\A k \in DOMAIN order_threads :
          k \in DOMAIN order_threads' /\ order_threads'[k] = order_threads[k]]_vars

\* ------------------------------------------------------------------------
\* C13
\* ------------------------------------------------------------------------

\* C13: a delivery issues the conversations.history query only on a cache
\* miss: the step in which a delivery is received goes on to the history
\* query only if order_threads has no entry for its order at that moment, so
\* no delivery received after the entry exists issues the query.
C13_CacheFirst ==
    [][\A h \in Threads :
          (pc[h] = "idle" /\ pc'[h] = "history")
          => order_number'[h] \notin DOMAIN order_threads]_vars

\* the first delivery received after order 12 was cached to T1 has taken T1
\* from order_threads, while a scan of the channel would find T3
C13_Witness ==
    \E h \in Threads :
        /\ webhooks = 1
        /\ pc[h] = "cache"
        /\ order_number[h] = <<"1", "2">>
        /\ thread_ts[h] = <<"T", "1">>
        /\ order_threads[<<"1", "2">>] = <<"T", "1">>
        /\ channel = ChannelReposted

\* ------------------------------------------------------------------------
\* C14
\* ------------------------------------------------------------------------

\* the ways the conversations.history query fails
HistoryFailures == HistoryOutcomes \ {"ok"}

\* the ways the comment feed query fails
FeedFailures == {"transport_error", "bad_json", "errors", "no_data"}

\* C14: a delivery whose conversations.history query fails ends as 'thread
\* not found' and one whose comment feed query fails ends as 'no comment':
\* it is answered with status 200, sends no chat post and leaves
\* processed_comments unchanged.
C14_UpstreamFailureNotFatal ==
    [][\A h \in Threads :
          /\ \A o \in HistoryFailures :
                HistoryAnswer(h, o)
                => /\ answered'.body = "No Slack thread"
                   /\ answered'.status = 200
                   /\ UNCHANGED <<processed_comments, posts>>
          /\ \A k \in FeedFailures :
                CacheAndFetch(h, FeedResponse(k, <<>>))
                => /\ answered'.body = "No comment"
                   /\ answered'.status = 200
                   /\ UNCHANGED <<processed_comments, posts>>]_vars

\* ------------------------------------------------------------------------
\* C15
\* ------------------------------------------------------------------------

\* events has an event of the comment kind
HasComment(events) ==
    \E i \in 1..Len(events) : events[i].typename = "OrderCommentEvent"

\* c is the first event of events, in feed order, of the comment kind
IsFirstComment(events, c) ==
    \E i \in 1..Len(events) :
        /\ events[i] = c
        /\ events[i].typename = "OrderCommentEvent"
        /\ \A j \in 1..(i - 1) : events[j].typename # "OrderCommentEvent"

\* in this step the fetch of thread h returns the node c
Fetched(h, c) == pc'[h] = "dedup" /\ comment'[h] = c

\* in this step the fetch of thread h returns None
FetchedNone(h) ==
    pc'[h] = "idle" /\ answered'.body = "No comment" /\ answered'.status = 200

\* C15 as stated: the fetch returns the first event, in feed order, of the
\* comment kind, skipping the events of other kinds before it, and returns
\* None exactly when the response has no data (or is no JSON at all), no
\* order, no events or no event of the comment kind.
C15_FetcherSelection ==
    [][\A h \in Threads, r \in FetchResponses :
          CacheAndFetch(h, r)
          => IF r.kind \in {"bad_json", "no_data", "no_order"} \/ ~HasComment(r.events)
             THEN FetchedNone(h)
             ELSE \E c \in FetchNodes : IsFirstComment(r.events, c) /\ Fetched(h, c)]_vars

\* C15 as amended: the same, and the fetch also returns None when the
\* response carries GraphQL errors, whatever events come with them.
C15_FetcherSelectionNoErrors ==
    [][\A h \in Threads, r \in FetchResponses :
          CacheAndFetch(h, r)
          => IF \/ r.kind \in {"bad_json", "errors", "no_data", "no_order"}
                \/ ~HasComment(r.events)
             THEN FetchedNone(h)
             ELSE \E c \in FetchNodes : IsFirstComment(r.events, c) /\ Fetched(h, c)]_vars

\* one fetch has returned the later comment and another has returned None
C15_Witness ==
    /\ \E h \in Threads :
          pc[h] = "dedup" /\ comment[h] = CommentNode(<<"h", "i">>, <<"2">>)
    /\ answered.body = "No comment"
    /\ answered.did["feed_query"] = 1

\* ------------------------------------------------------------------------
\* C16
\* ------------------------------------------------------------------------

\* the ways the chat.postMessage request fails
ReplyFailures == ReplyOutcomes \ {"ok"}

\* C16: a delivery whose chat post fails is still answered 200 "OK", with
\* the key of its comment recorded in processed_comments; and no later
\* delivery that fetches a comment whose chat post failed sends another chat
\* post for it.
C16_PostFailureNotRetried ==
    [][\A h \in Threads :
          /\ \A o \in ReplyFailures :
                AddAndReply(h, o)
                => /\ answered'.body = "OK"
                   /\ answered'.status = 200
                   /\ DedupKey(comment[h]) \in processed_comments'
          /\ (/\ Decides(h)
              /\ \E p \in posts : ~p.confirmed /\ SameComment(p, comment[h]))
             => pc'[h] # "add"]_vars

\* ------------------------------------------------------------------------
\* C17
\* ------------------------------------------------------------------------

\* C17: after every step, every chat post made so far (one that Slack
\* confirmed) is for a comment whose key is in processed_comments and went to the handle that order_threads
\* holds for the order of that comment; and processed_comments only grows,
\* by at most one key in a step.
C17_PostImpliesRecorded ==
    [][/\ \A p \in posts' :
             p.confirmed
             => /\ DedupKey(p) \in processed_comments'
                /\ p.order \in DOMAIN order_threads'
                /\ order_threads'[p.order] = p.request.thread_ts
       /\ processed_comments \subseteq processed_comments'
       /\ Cardinality(processed_comments' \ processed_comments) <= 1]_vars

\* ------------------------------------------------------------------------
\* C18
\* ------------------------------------------------------------------------

\* thread h takes the step in which its delivery is answered with body
EndsWith(h, body) ==
    pc[h] \in {"cache", "dedup"} /\ pc'[h] = "idle" /\ answered'.body = body

\* C18: a delivery that ends with 'No comment' or 'Duplicate' has sent no
\* chat post and has recorded no key, and its last step changes neither
\* posts nor processed_comments; but it has written its handle into
\* order_threads, which holds an entry for its order when it ends: the
\* handle of this delivery when it ends with 'No comment', the write being
\* made in that step.
C18_NoDeliveryFrame ==
    [][\A h \in Threads :
          (EndsWith(h, "No comment") \/ EndsWith(h, "Duplicate"))
          => /\ UNCHANGED <<posts, processed_comments>>
             /\ answered'.did["chat_post"] = 0
             /\ answered'.did["store_write"] = 0
             /\ answered'.did["cache_write"] = 1
             /\ order_number[h] \in DOMAIN order_threads'
             /\ EndsWith(h, "No comment")
                => order_threads'[order_number[h]] = thread_ts[h]]_vars

\* a delivery has ended with 'No comment': nothing was posted or recorded,
\* and the thread of its order is cached
C18_Witness ==
    /\ answered.body = "No comment"
    /\ answered.did["cache_write"] = 1
    /\ webhooks = 1
    /\ posts = {}
    /\ processed_comments = {}
    /\ order_threads # <<>>

=============================================================================
